---------------------------- MODULE Spec2Model ----------------------------
(***************************************************************************)
(* Treewidth sweep of evaluation_acm_ccr_2019:                             *)
(*   SimpleTreeDecompositionExperiment (coordinator and aggregator),       *)
(*   execute_single_experiment (one worker process),                       *)
(*   SimpleRandomGraphGenerator.generate_graph.                            *)
(*                                                                         *)
(* A file is [exists, records, archive]: `records` is the stream of        *)
(* pickled TreeDecompositionAlgorithmResult objects appended in "ab" mode, *)
(* `archive` holds the dictionary dumped in "wb" mode (at most one).       *)
(* Probabilities and random draws are counted in halves: 0 is 0.0, 1 is    *)
(* 0.5, 2 is 1.0; random.random() lies in [0.0, 1.0).                      *)
(* A result's wall-clock runtime field is not modelled; the field `sweep`  *)
(* stands for what tells a record of this sweep from one an earlier sweep  *)
(* left in the same file.                                                  *)
(*                                                                         *)
(* Spec is one call of start_experiments with its workers and aggregation, *)
(* the random stream left open. SpecTwoSweeps is two calls one after the   *)
(* other, each with its workers generating their graphs from the seeded    *)
(* stream; a value of the stream is 1 for a number in (0.0, 0.5] and 2 for *)
(* a number in (0.5, 1.0).                                                 *)
(***************************************************************************)
EXTENDS Integers, Sequences, FiniteSets, Bags, TLC

\* ------------------------------------------------------------------ bounds
MaxThreads == 2
MaxRepetitions == 3
MaxNodes == 3

\* ------------------------------------------------------------ input space
\* the replacement field {process_index} of an output file base name
FIELD == "{process_index}"

\* output file base names: literal text and replacement fields
OutputFileBases ==
    { <<"tw_", FIELD, ".pickle">>, <<FIELD, "_", FIELD>>, <<"tw.pickle">> }

\* parameter files: number_of_nodes and probability lists, and the optional
\* keys scenario_repetition, random_seed_base, store_graphs_of_treewidth,
\* store_only_connected_graphs
ParameterSpaces ==
    { [ number_of_nodes |-> <<2>>, probability |-> <<2>> ],
      [ number_of_nodes |-> <<2>>, probability |-> <<2>>,
        scenario_repetition |-> MaxRepetitions, random_seed_base |-> 1 ],
      [ number_of_nodes |-> <<1, 2>>, probability |-> <<2>>,
        scenario_repetition |-> 1,
        store_graphs_of_treewidth |-> {1} ],
      [ number_of_nodes |-> <<2>>, probability |-> <<0, 2>>,
        store_graphs_of_treewidth |-> {0, 1},
        store_only_connected_graphs |-> TRUE ],
      [ number_of_nodes |-> <<2, 2>>, probability |-> <<1>>,
        store_graphs_of_treewidth |-> {1} ] }

VARIABLES
    threads,                  \* self.threads
    output_file_base_name,    \* self.output_file_base_name
    timeout,                  \* self.timeout: None or Some(seconds)
    remove_process_pickles,   \* self.remove_process_pickles
    scenario_parameter_space, \* the dictionary handed to start_experiments
    number_of_repetitions,    \* start_experiments' local
    random_seed_base,         \* start_experiments' local
    store_graphs_of_treewidth,
    store_only_connected_graphs,
    fs,                       \* the file system: file name -> file
    cpc,                      \* the coordinator's position
    cidx,                     \* the coordinator's loop index (start, join, read, remove)
    result_dict,              \* combine_results_to_overall_pickle's local
    wpc,                      \* each worker process: "new", "running", "done", "crashed", "blocked"
    wk,                       \* each worker's enumerate index
    processed,                \* history: each worker's work items so far, in order
    preexisting,              \* history: the log files that existed at the start
    given,                    \* history: the dictionary as it was handed to the first call
    sweep,                    \* which call of start_experiments this is: 1 or 2
    first,                    \* history: None, or what the first call did
    node_order,               \* the order in which this interpreter iterates a set of node names
    rng,                      \* each worker's random stream: None, or [seed, pos]
    graphs,                   \* history: work item index -> edges generated in this call
    called,                   \* None, or the arguments of one call of a function taken by itself
    returned                  \* None, or what that call returned

vars == << threads, output_file_base_name, timeout, remove_process_pickles,
           scenario_parameter_space, number_of_repetitions,
           store_graphs_of_treewidth, store_only_connected_graphs,
           fs, cpc, cidx, result_dict, wpc, wk, processed, preexisting,
           random_seed_base, given, sweep, first, node_order, rng, graphs,
           called, returned >>

\* what belongs to a sequence of two calls; one call leaves it as it is
replay == << given, sweep, first, node_order, rng, graphs >>

\* a function called by itself, outside a sweep
unit == << called, returned >>

config == << threads, output_file_base_name, timeout, remove_process_pickles, preexisting,
            replay, unit >>
locals == << number_of_repetitions, random_seed_base,
            store_graphs_of_treewidth, store_only_connected_graphs >>


\* ----------------------------------------------------------- optional values
None == <<>>
Some(v) == <<v>>

\* ----------------------------------------------------------------- helpers
RECURSIVE Flatten(_)
Flatten(ss) == IF ss = <<>> THEN <<>> ELSE Head(ss) \o Flatten(Tail(ss))

RECURSIVE SeqToBag(_)
SeqToBag(s) == IF s = <<>> THEN EmptyBag ELSE SetToBag({Head(s)}) (+) SeqToBag(Tail(s))

Range(f) == { f[x] : x \in DOMAIN f }

\* ------------------------------------------------------------- file names
\* str.format(process_index=arg): every replacement field becomes str(arg)
Format(base, arg) ==
    [ i \in 1..Len(base) |-> IF base[i] = FIELD THEN ToString(arg) ELSE base[i] ]

\* faulty variant: the process index does not reach the file name
OutputFilenamesSameIndex(base, n) == [ process_index \in 0..(n - 1) |-> Format(base, 0) ]

\* __init__: self.output_filenames, indexed by process_index
OutputFilenames(base, n) == [ process_index \in 0..(n - 1) |-> Format(base, process_index) ]

output_filenames == OutputFilenames(output_file_base_name, threads)

\* combine_results_to_overall_pickle: pickle_file
pickle_file == Format(output_file_base_name, "aggregated_results")

NoFile == [ exists |-> FALSE, records |-> <<>>, archive |-> <<>> ]

\* faulty variant: the file is opened in "wb" mode, which truncates it
AppendRecordTruncating(file, result) ==
    [ exists |-> TRUE, records |-> << result >>, archive |-> <<>> ]

\* faulty variant: the record is written at the start of the file
AppendRecordAtStart(file, result) ==
    [ exists |-> TRUE, records |-> << result >> \o file.records, archive |-> file.archive ]

\* open(name, "ab"); pickle.dump(result, f): creates the file, appends one record
AppendRecord(file, result) ==
    [ exists |-> TRUE, records |-> Append(file.records, result), archive |-> file.archive ]

\* open(name, "wb"); pickle.dump(d, f): truncates, writes the dictionary
WriteArchive(d) == [ exists |-> TRUE, records |-> <<>>, archive |-> <<d>> ]

\* ------------------------------------------------------------- work items
\* itertools.product(num_nodes_list, connection_probabilities_list, list(range(repetitions)))
Product(num_nodes_list, connection_probabilities_list, repetitions) ==
    Flatten([ i \in 1..Len(num_nodes_list) |->
        Flatten([ j \in 1..Len(connection_probabilities_list) |->
            [ r \in 1..repetitions |->
                << num_nodes_list[i], connection_probabilities_list[j], r - 1 >> ] ]) ])

\* the enumerated work items of the sweep, global index k at position k + 1
WorkItems ==
    Product(scenario_parameter_space["number_of_nodes"],
            scenario_parameter_space["probability"],
            number_of_repetitions)

Total == Len(WorkItems)

\* faulty variant: the index is reduced modulo 1 instead of the number of processes
IsAssignedModuloOne(k, num_processes, process_index) == k % 1 = process_index

\* faulty variant: the round-robin test is off by one
IsAssignedOffByOne(k, num_processes, process_index) ==
    (k + 1) % num_processes = process_index

\* execute_single_experiment: if repetition_index % num_processes == process_index
IsAssigned(k, num_processes, process_index) == k % num_processes = process_index

\* ------------------------------------------------------------------ graphs
Draws == {0, 1}

Pairs(number_of_nodes) ==
    { << i, j >> : i \in 1..number_of_nodes, j \in 1..number_of_nodes }

\* generate_graph: nodes "1".."N"; a pair is skipped if int(j) <= int(i), else it
\* becomes an edge if random.random() <= connection_probability
GenerateGraph(number_of_nodes, connection_probability, draw) ==
    [ nodes |-> 1..number_of_nodes,
      edges |-> { e \in Pairs(number_of_nodes) :
                    /\ ~ (e[2] <= e[1])
                    /\ draw[e] <= connection_probability } ]

DrawFunctions(number_of_nodes) ==
    [ { e \in Pairs(number_of_nodes) : e[1] < e[2] } -> Draws ]

\* graph.get_edge_representation()
EdgeRepresentation(graph) == graph.edges

\* datamodel.is_connected_undirected_edge_representation, for graphs of up to
\* two nodes: the nodes the edges name form one component
IsConnectedEdgeRepresentation(rep) == rep # {}

\* the treewidth of a graph of up to two nodes
Treewidth(graph) == IF graph.edges = {} THEN 0 ELSE 1

\* twm.compute_tree_decomposition's result: None, or a decomposition with a
\* width and the answer is_tree_decomposition(graph) gives for it; no valid
\* decomposition is narrower than the graph's treewidth
Decompositions(graph) ==
    { td \in [ width : 0..(Cardinality(graph.nodes) - 1), valid : BOOLEAN ] :
        td.valid => td.width >= Treewidth(graph) }

\* ----------------------------------------------------------------- results
\* TreeDecompositionAlgorithmResult
Result(num_nodes, prob, repetition_index, graph_edge_representation, treewidth) ==
    [ num_nodes |-> num_nodes,
      edge_probability |-> prob,
      repetition_index |-> repetition_index,
      undirected_graph_edge_representation |-> graph_edge_representation,
      treewidth |-> treewidth,
      sweep |-> "this" ]

\* faulty variant: the graph is kept for every treewidth
BuildResultForEveryTreewidth(params, graph, tree_decomp, store_tw, only_connected) ==
    LET treewidth == IF tree_decomp # None THEN Some(tree_decomp[1].width) ELSE None
        rep == EdgeRepresentation(graph)
        graph_edge_representation ==
            IF treewidth = None THEN None
            ELSE IF only_connected /\ ~ IsConnectedEdgeRepresentation(rep) THEN None
            ELSE Some(rep)
    IN  Result(params[1], params[2], params[3], graph_edge_representation, treewidth)

\* execute_single_experiment, lines 179-206: the record built for a work item
\* from the generated graph and the decomposition (None or a valid one)
BuildResult(params, graph, tree_decomp, store_tw, only_connected) ==
    LET treewidth == IF tree_decomp # None THEN Some(tree_decomp[1].width) ELSE None
        interesting == treewidth # None /\ treewidth[1] \in store_tw
        rep == EdgeRepresentation(graph)
        graph_edge_representation ==
            IF ~ interesting THEN None
            ELSE IF only_connected /\ ~ IsConnectedEdgeRepresentation(rep) THEN None
            ELSE Some(rep)
    IN  Result(params[1], params[2], params[3], graph_edge_representation, treewidth)

\* a record an earlier sweep left in a log file
StaleResult ==
    [ num_nodes |-> 2, edge_probability |-> 2, repetition_index |-> 0,
      undirected_graph_edge_representation |-> None, treewidth |-> Some(1),
      sweep |-> "earlier" ]


\* ------------------------------------------------------------------- Init
Workers == 0..(threads - 1)

\* the log files that exist before the sweep starts: none, or the first worker's
PreExisting(names) == { {}, { names[0] } }

\* the state after SimpleTreeDecompositionExperiment.__init__
Init ==
    /\ threads \in 1..MaxThreads
    /\ output_file_base_name \in OutputFileBases
    /\ timeout \in { None, Some(1) }
    /\ remove_process_pickles \in BOOLEAN
    /\ scenario_parameter_space \in ParameterSpaces
    /\ number_of_repetitions = 1
    /\ random_seed_base = 0
    /\ given = scenario_parameter_space
    /\ sweep = 1
    /\ first = None
    /\ node_order = [ i \in 1..MaxNodes |-> i ]
    /\ rng = [ w \in Workers |-> None ]
    /\ graphs = <<>>
    /\ called = None
    /\ returned = None
    /\ store_graphs_of_treewidth = {}
    /\ store_only_connected_graphs = FALSE
    /\ preexisting \in PreExisting(output_filenames)
    /\ LET pre == preexisting IN
          fs = [ f \in Range(output_filenames) \cup {pickle_file} |->
                   IF f \in pre
                   THEN [ exists |-> TRUE, records |-> << StaleResult >>, archive |-> <<>> ]
                   ELSE NoFile ]
    /\ cpc = "init"
    /\ cidx = 0
    /\ result_dict = <<>>
    /\ wpc = [ w \in Workers |-> "new" ]
    /\ wk = [ w \in Workers |-> 0 ]
    /\ processed = [ w \in Workers |-> <<>> ]

\* -------------------------------------------------------------- coordinator
\* dict without a key (del d[key])
Del(d, key) == [ x \in DOMAIN d \ {key} |-> d[x] ]

Get(d, key, default) == IF key \in DOMAIN d THEN d[key] ELSE default

\* start_experiments, lines 72-88: reads the control values, deletes
\* scenario_repetition and random_seed_base from the dictionary it was given
StartExperiments ==
    /\ cpc = "init"
    /\ number_of_repetitions' = Get(scenario_parameter_space, "scenario_repetition", 1)
    /\ random_seed_base' = Get(scenario_parameter_space, "random_seed_base", 0)
    /\ scenario_parameter_space' =
          Del(Del(scenario_parameter_space, "scenario_repetition"), "random_seed_base")
    /\ store_graphs_of_treewidth' = Get(scenario_parameter_space, "store_graphs_of_treewidth", {})
    /\ store_only_connected_graphs' = Get(scenario_parameter_space, "store_only_connected_graphs", FALSE)
    /\ cpc' = "start"
    /\ cidx' = 0
    /\ UNCHANGED << config, fs, result_dict, wpc, wk, processed >>

\* the loop position after one more iteration over the processes
NextIdx(next) == IF cidx + 1 < threads THEN << cpc, cidx + 1 >> ELSE << next, 0 >>

\* start_experiments, lines 105-107: p.start() for the next process
StartProcess ==
    /\ cpc = "start"
    /\ wpc' = [ wpc EXCEPT ![cidx] = "running" ]
    /\ cpc' = NextIdx("join")[1]
    /\ cidx' = NextIdx("join")[2]
    /\ UNCHANGED << config, locals, scenario_parameter_space, fs, result_dict, wk, processed >>

Terminated(w) == wpc[w] \in { "done", "crashed" }

\* faulty variant: join does not wait for the process
JoinReturnsAtOnce(w) == wpc[w] # "new"

\* p.join() returns once the process has terminated
JoinReturns(w) == Terminated(w)

\* start_experiments, lines 109-112: p.join() for the next process; after the
\* last one combine_results_to_overall_pickle starts with an empty result_dict
JoinProcess ==
    /\ cpc = "join"
    /\ JoinReturns(cidx)
    /\ cpc' = NextIdx("combine")[1]
    /\ cidx' = NextIdx("combine")[2]
    /\ result_dict' = <<>>
    /\ UNCHANGED << config, locals, scenario_parameter_space, fs, wpc, wk, processed >>

\* faulty variant: results without a treewidth are not inserted
InsertSkippingTimeouts(d, result) ==
    IF result.treewidth = None THEN d
    ELSE LET n == result.num_nodes
             p == result.edge_probability
             d1 == IF n \in DOMAIN d THEN d
                   ELSE [ x \in DOMAIN d \cup {n} |-> IF x = n THEN <<>> ELSE d[x] ]
             inner == d1[n]
             inner1 == IF p \in DOMAIN inner THEN inner
                       ELSE [ y \in DOMAIN inner \cup {p} |-> IF y = p THEN <<>> ELSE inner[y] ]
         IN  [ d1 EXCEPT ![n] = [ inner1 EXCEPT ![p] = Append(inner1[p], result) ] ]

\* faulty variant: a result replaces the list under its key
InsertOverwriting(d, result) ==
    LET n == result.num_nodes
        p == result.edge_probability
        d1 == IF n \in DOMAIN d THEN d ELSE [ x \in DOMAIN d \cup {n} |-> IF x = n THEN <<>> ELSE d[x] ]
        inner == d1[n]
        inner1 == IF p \in DOMAIN inner THEN inner
                  ELSE [ y \in DOMAIN inner \cup {p} |-> IF y = p THEN <<>> ELSE inner[y] ]
    IN  [ d1 EXCEPT ![n] = [ inner1 EXCEPT ![p] = << result >> ] ]

\* lines 122-126: result_dict after inserting one result
Insert(d, result) ==
    LET n == result.num_nodes
        p == result.edge_probability
        d1 == IF n \in DOMAIN d THEN d ELSE [ x \in DOMAIN d \cup {n} |-> IF x = n THEN <<>> ELSE d[x] ]
        inner == d1[n]
        inner1 == IF p \in DOMAIN inner THEN inner
                  ELSE [ y \in DOMAIN inner \cup {p} |-> IF y = p THEN <<>> ELSE inner[y] ]
    IN  [ d1 EXCEPT ![n] = [ inner1 EXCEPT ![p] = Append(inner1[p], result) ] ]

\* faulty variant: the read loop stops one record before the end of the file
RECURSIVE InsertAllButLast(_, _)
InsertAllButLast(d, records) ==
    IF Len(records) <= 1 THEN d ELSE InsertAllButLast(Insert(d, Head(records)), Tail(records))

\* lines 120-128: pickle.load until EOFError, inserting every result
RECURSIVE InsertAll(_, _)
InsertAll(d, records) ==
    IF records = <<>> THEN d ELSE InsertAll(Insert(d, Head(records)), Tail(records))

\* combine_results_to_overall_pickle, lines 117-128: the next log file is opened
\* and read to its end; open() of a file that does not exist raises
CombineRead ==
    /\ cpc = "combine"
    /\ LET fname == output_filenames[cidx] IN
        IF fs[fname].exists
        THEN /\ result_dict' = InsertAll(result_dict, fs[fname].records)
             /\ cpc' = NextIdx("write")[1]
             /\ cidx' = NextIdx("write")[2]
        ELSE /\ cpc' = "failed"
             /\ UNCHANGED << result_dict, cidx >>
    /\ UNCHANGED << config, locals, scenario_parameter_space, fs, wpc, wk, processed >>

\* faulty variant: the log files are removed whether or not removal is configured
CombineWriteAlwaysRemoves ==
    /\ cpc = "write"
    /\ fs' = [ fs EXCEPT ![pickle_file] = WriteArchive(result_dict) ]
    /\ cpc' = "remove"
    /\ cidx' = 0
    /\ UNCHANGED << config, locals, scenario_parameter_space, result_dict, wpc, wk, processed >>

\* lines 130-135: the dictionary is written to pickle_file
CombineWrite ==
    /\ cpc = "write"
    /\ fs' = [ fs EXCEPT ![pickle_file] = WriteArchive(result_dict) ]
    /\ cpc' = IF remove_process_pickles THEN "remove" ELSE "finished"
    /\ cidx' = 0
    /\ UNCHANGED << config, locals, scenario_parameter_space, result_dict, wpc, wk, processed >>

\* lines 136-139: the next log file is removed if it exists
CombineRemove ==
    /\ cpc = "remove"
    /\ LET fname == output_filenames[cidx] IN
        fs' = IF fs[fname].exists THEN [ fs EXCEPT ![fname] = NoFile ] ELSE fs
    /\ cpc' = NextIdx("finished")[1]
    /\ cidx' = NextIdx("finished")[2]
    /\ UNCHANGED << config, locals, scenario_parameter_space, result_dict, wpc, wk, processed >>

\* ------------------------------------------------------------------ workers
\* lines 162-167: the indices from wk[w] on that the for loop of worker w has
\* yet to process, i.e. those with repetition_index % num_processes == process_index
Remaining(w) == { k \in wk[w]..(Total - 1) : IsAssigned(k, threads, w) }

Min(S) == CHOOSE x \in S : \A y \in S : x <= y

\* faulty variant: a worker goes on only while no other worker has failed
AtItemUnlessSiblingFailed(w) ==
    /\ wpc[w] = "running"
    /\ Remaining(w) # {}
    /\ \A u \in Workers : wpc[u] \notin { "crashed", "blocked" }

\* the for loop of worker w is at its next assigned work item
AtItem(w) == wpc[w] = "running" /\ Remaining(w) # {}

\* what compute_tree_decomposition may return: a decomposition, or None when
\* a timeout is set
Returned(graph) ==
    { Some(td) : td \in Decompositions(graph) } \cup (IF timeout # None THEN { None } ELSE {})

\* faulty variant: the assertion is made without the test for None before it
AssertionWithoutNoneTest(tree_decomp) ==
    IF tree_decomp = None THEN FALSE ELSE tree_decomp[1].valid

\* faulty variant: the assertion is not evaluated
AssertionSkipped(tree_decomp) == TRUE

\* line 182: assert tree_decomp.is_tree_decomposition(graph)
AssertionHolds(tree_decomp) == IF tree_decomp = None THEN TRUE ELSE tree_decomp[1].valid

\* a history entry: the work item's global index, how the call of
\* compute_tree_decomposition ended ("returned", "raised", "blocked"), what it
\* returned, and the result appended for the item, if any
Entry(k, call, tree_decomp, result) ==
    [ index |-> k, call |-> call, tree_decomp |-> tree_decomp, result |-> result ]

\* lines 162-210, one assigned work item: the graph is generated, the
\* decomposition returns and passes the assertion, the result is appended to
\* out_file
WorkerRecord(w) ==
    /\ AtItem(w)
    /\ LET k == Min(Remaining(w))
           params == WorkItems[k + 1]
       IN
        /\ \E draw \in DrawFunctions(params[1]) :
            LET graph == GenerateGraph(params[1], params[2], draw) IN
              \E tree_decomp \in Returned(graph) :
                /\ AssertionHolds(tree_decomp)
                /\ LET result == BuildResult(params, graph, tree_decomp,
                                             store_graphs_of_treewidth, store_only_connected_graphs)
                       out_file == output_filenames[w]
                   IN  /\ fs' = [ fs EXCEPT ![out_file] = AppendRecord(@, result) ]
                       /\ processed' = [ processed EXCEPT ![w] =
                                Append(@, Entry(k, "returned", tree_decomp, Some(result))) ]
        /\ wk' = [ wk EXCEPT ![w] = k + 1 ]
    /\ UNCHANGED << config, locals, scenario_parameter_space, cpc, cidx, result_dict, wpc >>

\* lines 175 and 182: compute_tree_decomposition raises, or what it returns
\* fails the assertion; the exception ends the process before anything is written
WorkerAbort(w) ==
    /\ AtItem(w)
    /\ LET k == Min(Remaining(w))
           params == WorkItems[k + 1]
       IN
        /\ wk' = [ wk EXCEPT ![w] = k ]
        /\ \/ processed' = [ processed EXCEPT ![w] = Append(@, Entry(k, "raised", None, None)) ]
           \/ \E draw \in DrawFunctions(params[1]) :
                \E tree_decomp \in Returned(GenerateGraph(params[1], params[2], draw)) :
                  /\ ~ AssertionHolds(tree_decomp)
                  /\ processed' = [ processed EXCEPT ![w] =
                                      Append(@, Entry(k, "returned", tree_decomp, None)) ]
    /\ wpc' = [ wpc EXCEPT ![w] = "crashed" ]
    /\ UNCHANGED << config, locals, scenario_parameter_space, fs, cpc, cidx, result_dict >>

\* line 175: without a timeout compute_tree_decomposition may never return
WorkerBlock(w) ==
    /\ AtItem(w)
    /\ timeout = None
    /\ LET k == Min(Remaining(w)) IN
        /\ wk' = [ wk EXCEPT ![w] = k ]
        /\ processed' = [ processed EXCEPT ![w] = Append(@, Entry(k, "blocked", None, None)) ]
    /\ wpc' = [ wpc EXCEPT ![w] = "blocked" ]
    /\ UNCHANGED << config, locals, scenario_parameter_space, fs, cpc, cidx, result_dict >>

\* the loop is exhausted: execute_single_experiment returns, the process exits
WorkerReturn(w) ==
    /\ wpc[w] = "running"
    /\ Remaining(w) = {}
    /\ wpc' = [ wpc EXCEPT ![w] = "done" ]
    /\ wk' = [ wk EXCEPT ![w] = Total ]
    /\ UNCHANGED << config, locals, scenario_parameter_space, fs, cpc, cidx, result_dict, processed >>

Next ==
    \/ StartExperiments
    \/ StartProcess
    \/ JoinProcess
    \/ CombineRead
    \/ CombineWrite
    \/ CombineRemove
    \/ \E w \in Workers : WorkerRecord(w)
    \/ \E w \in Workers : WorkerAbort(w)
    \/ \E w \in Workers : WorkerBlock(w)
    \/ \E w \in Workers : WorkerReturn(w)

Spec == Init /\ [][Next]_vars


\* ------------------------------------------------------------------ claims
\* all history entries, as << worker, position >> pairs
Entries == UNION { { << w, i >> : i \in DOMAIN processed[w] } : w \in Workers }

EntryOf(e) == processed[e[1]][e[2]]

ProcessedIndices(w) == { processed[w][i].index : i \in DOMAIN processed[w] }

AllDone == \A w \in Workers : wpc[w] = "done"

\* the work item at global index k of the ordered cross product, by position
ItemAt(k) ==
    LET N == scenario_parameter_space["number_of_nodes"]
        P == scenario_parameter_space["probability"]
        R == number_of_repetitions
    IN  << N[(k \div (Len(P) * R)) + 1], P[((k \div R) % Len(P)) + 1], k % R >>

\* C1: the enumerated work items are the ordered cross product
\* node_counts x probabilities x {0..R-1}; every work item a worker takes up has
\* a global index k with k mod W equal to the worker's index; no index is taken
\* up twice, by the same or by different workers; a worker that has returned
\* has taken up every index k with k mod W equal to its own; once all workers
\* have returned, every index 0..Total-1 has been taken up.
C1_RoundRobinPartition ==
    /\ Total = Len(scenario_parameter_space["number_of_nodes"])
                 * Len(scenario_parameter_space["probability"]) * number_of_repetitions
    /\ \A k \in 0..(Total - 1) : WorkItems[k + 1] = ItemAt(k)
    /\ \A e \in Entries :
          /\ EntryOf(e).index \in 0..(Total - 1)
          /\ EntryOf(e).index % threads = e[1]
    /\ \A e1, e2 \in Entries : e1 # e2 => EntryOf(e1).index # EntryOf(e2).index
    /\ \A w \in Workers :
          wpc[w] = "done" => ProcessedIndices(w) = { k \in 0..(Total - 1) : k % threads = w }
    /\ AllDone => UNION { ProcessedIndices(w) : w \in Workers } = 0..(Total - 1)

\* C1 witness: two workers have returned, one of them after more than one item
C1_Witness ==
    /\ threads = 2
    /\ AllDone
    /\ \E w \in Workers : Len(processed[w]) >= 2
    /\ \A w \in Workers : Len(processed[w]) >= 1

Aggregating == cpc \in { "combine", "write", "remove", "finished", "failed" }

\* C2: whenever combine_results_to_overall_pickle is running or has run (it is
\* reading a log, writing the archive, removing logs, has finished or has
\* failed), every worker process has terminated, by returning or by an
\* exception; none is running, blocked or not yet started.
C2_AggregationAfterAllTerminated ==
    Aggregating => \A w \in Workers : wpc[w] \in { "done", "crashed" }

\* C2 witness: the aggregator is about to read the second log, after one
\* worker returned and the other ended with an exception
C2_Witness ==
    /\ cpc = "combine"
    /\ cidx = 1
    /\ \E w, v \in Workers : wpc[w] = "done" /\ wpc[v] = "crashed"

\* the base name has a replacement field {process_index}
HasField(base) == \E i \in 1..Len(base) : base[i] = FIELD

\* the results worker w has appended, in order
RecordedResults(w) ==
    LET recorded == SelectSeq(processed[w], LAMBDA e : e.result # None)
    IN  [ i \in 1..Len(recorded) |-> recorded[i].result[1] ]

HasWritten(w) == RecordedResults(w) # <<>>

\* the records of a stream that this sweep wrote
ThisSweep(records) == SelectSeq(records, LAMBDA r : r.sweep = "this")

\* C3 as stated: for every base name and every W > 0, two different workers
\* that have both appended a result have appended to different files.
C3_Original ==
    \A w, v \in Workers :
        (w # v /\ HasWritten(w) /\ HasWritten(v))
            => output_filenames[w] # output_filenames[v]

\* C3 amended: for every base name that contains the replacement field
\* {process_index} and every W > 0 the W output file names are pairwise
\* distinct, and as long as a worker's file exists, the records of this sweep
\* in it are exactly the results that this worker appended, in its order: no
\* other worker has appended to it.
C3_DistinctFilesGivenField ==
    HasField(output_file_base_name) =>
        /\ \A w, v \in Workers : w # v => output_filenames[w] # output_filenames[v]
        /\ \A w \in Workers :
              fs[output_filenames[w]].exists =>
                  ThisSweep(fs[output_filenames[w]].records) = RecordedResults(w)

\* C3 witness: a base name with the field, two workers, both have appended
C3_Witness ==
    /\ HasField(output_file_base_name)
    /\ threads = 2
    /\ \A w \in Workers : HasWritten(w) /\ fs[output_filenames[w]].exists

\* the keys << num_nodes, edge_probability >> of an aggregated index
Keys(d) == UNION { { << n, p >> : p \in DOMAIN d[n] } : n \in DOMAIN d }

\* all records of an aggregated index, as a multiset
RECURSIVE SumBags(_, _)
SumBags(keys, d) ==
    IF keys = {} THEN EmptyBag
    ELSE LET k == CHOOSE x \in keys : TRUE
         IN  SeqToBag(d[k[1]][k[2]]) (+) SumBags(keys \ {k}, d)

IndexBag(d) == SumBags(Keys(d), d)

\* the multiset of << num_nodes, edge_probability, repetition_index >> of the
\* records of an aggregated index
RECURSIVE SumItems(_, _)
SumItems(keys, d) ==
    IF keys = {} THEN EmptyBag
    ELSE LET k == CHOOSE x \in keys : TRUE
             records == d[k[1]][k[2]]
         IN  SeqToBag([ i \in 1..Len(records) |->
                          << records[i].num_nodes, records[i].edge_probability,
                             records[i].repetition_index >> ])
                 (+) SumItems(keys \ {k}, d)

IndexItems(d) == SumItems(Keys(d), d)

NoAbort == AllDone

\* C4 as stated: in a sweep started with no pre-existing worker log files in
\* which no worker aborts, once the sweep has finished the records of the
\* aggregated index are, as a multiset of (num_nodes, edge_probability,
\* repetition_index), exactly the work items of the cross product, and their
\* number is |node_counts| * |probabilities| * repetitions.
C4_Original ==
    (preexisting = {} /\ NoAbort /\ cpc = "finished") =>
        /\ IndexItems(result_dict) = SeqToBag(WorkItems)
        /\ BagCardinality(IndexBag(result_dict)) =
              Len(scenario_parameter_space["number_of_nodes"])
                * Len(scenario_parameter_space["probability"]) * number_of_repetitions

\* C4 amended: the same, for a sweep whose output file base name contains the
\* replacement field {process_index}.
C4_OneRecordPerItemGivenField ==
    (HasField(output_file_base_name) /\ preexisting = {} /\ NoAbort /\ cpc = "finished") =>
        /\ IndexItems(result_dict) = SeqToBag(WorkItems)
        /\ BagCardinality(IndexBag(result_dict)) =
              Len(scenario_parameter_space["number_of_nodes"])
                * Len(scenario_parameter_space["probability"]) * number_of_repetitions
        /\ fs[pickle_file].archive = << result_dict >>

\* C4 witness: two workers, three work items, base name with the field, no
\* earlier logs, nobody aborted, the sweep has finished
C4_Witness ==
    /\ HasField(output_file_base_name)
    /\ preexisting = {}
    /\ NoAbort
    /\ cpc = "finished"
    /\ threads = 2
    /\ Total >= 2
    /\ BagCardinality(IndexBag(result_dict)) = Total

\* the decomposition of the entry's work item timed out: the call returned None
TimedOut(e) == e.call = "returned" /\ e.tree_decomp = None

\* the call returned a decomposition that is not one of the graph
InvalidDecomposition(e) ==
    /\ e.call = "returned"
    /\ e.tree_decomp # None
    /\ ~ e.tree_decomp[1].valid

\* the worker failed at the entry's work item: the call raised, never
\* returned, or returned an invalid decomposition
Failed(e) == e.call \in { "raised", "blocked" } \/ InvalidDecomposition(e)

LastEntry(w) == processed[w][Len(processed[w])]

\* C5: a step in which a worker takes up a work item whose decomposition times
\* out (compute_tree_decomposition returns None) appends one record for that
\* item to the worker's output file, with the item's parameters, no treewidth
\* and no graph; the worker is still running afterwards, at the next index.
C5_TimeoutIsRecorded ==
    [][ \A w \in Workers :
          ( /\ Len(processed'[w]) = Len(processed[w]) + 1
            /\ TimedOut(LastEntry(w)') )
          => LET e == LastEntry(w)'
                 out_file == output_filenames[w]
             IN  /\ e.result # None
                 /\ e.result[1].treewidth = None
                 /\ e.result[1].undirected_graph_edge_representation = None
                 /\ << e.result[1].num_nodes, e.result[1].edge_probability,
                       e.result[1].repetition_index >> = WorkItems[e.index + 1]
                 /\ fs'[out_file].exists
                 /\ fs'[out_file].records = Append(fs[out_file].records, e.result[1])
                 /\ wpc'[w] = "running"
                 /\ wk'[w] = e.index + 1
      ]_vars

\* C5 witness: a worker went on to a further work item after a timed-out one
C5_Witness ==
    \E w \in Workers : \E i \in DOMAIN processed[w] :
        /\ TimedOut(processed[w][i])
        /\ i < Len(processed[w])
        /\ processed[w][i + 1].result # None

Aggregated == cpc \in { "write", "remove", "finished" }

\* C6 as stated: no work item is taken up twice, and once the logs have been
\* aggregated the index holds no record that was appended for a work item that
\* timed out or at which its worker failed.
C6_Original ==
    /\ \A e1, e2 \in Entries : e1 # e2 => EntryOf(e1).index # EntryOf(e2).index
    /\ Aggregated =>
          \A e \in Entries :
              (TimedOut(EntryOf(e)) \/ Failed(EntryOf(e))) =>
                  \A r \in BagToSet(IndexBag(result_dict)) : EntryOf(e).result # Some(r)

\* C6 amended: no work item is taken up twice. A work item at which its worker
\* failed (the call raised, blocked or returned an invalid decomposition) gets
\* no record, a timed-out item gets a record without treewidth. Once the logs
\* have been aggregated, every record of this sweep in the index is the record
\* appended for some work item, and every appended record, those of timed-out
\* items included, is in the index under its (num_nodes, edge_probability).
C6_NoRetryTimeoutPresent ==
    /\ \A e1, e2 \in Entries : e1 # e2 => EntryOf(e1).index # EntryOf(e2).index
    /\ \A e \in Entries :
          /\ Failed(EntryOf(e)) => EntryOf(e).result = None
          /\ TimedOut(EntryOf(e)) =>
                EntryOf(e).result # None /\ EntryOf(e).result[1].treewidth = None
    /\ Aggregated =>
          /\ \A r \in BagToSet(IndexBag(result_dict)) :
                r.sweep = "this" => \E e \in Entries : EntryOf(e).result = Some(r)
          /\ \A e \in Entries :
                EntryOf(e).result # None =>
                    LET r == EntryOf(e).result[1] IN
                        /\ r.num_nodes \in DOMAIN result_dict
                        /\ r.edge_probability \in DOMAIN result_dict[r.num_nodes]
                        /\ r \in Range(result_dict[r.num_nodes][r.edge_probability])

\* C6 witness: the logs have been aggregated after one work item timed out and
\* a worker failed at another
C6_Witness ==
    /\ Aggregated
    /\ \E e \in Entries : TimedOut(EntryOf(e))
    /\ \E e \in Entries : Failed(EntryOf(e))

\* the records of this sweep in all files
FileRecords ==
    UNION { Range(ThisSweep(fs[f].records)) : f \in DOMAIN fs }

\* C7: a worker that gets an invalid decomposition fails at that work item:
\* the item gets no record, it is the worker's last item and the worker has
\* ended with an exception. Every record of this sweep in any file was appended
\* for a work item whose call returned None (the record has no treewidth) or a
\* decomposition that passed the validity check (the record has its width).
C7_InvalidDecompositionAborts ==
    /\ \A e \in Entries :
          InvalidDecomposition(EntryOf(e)) =>
              /\ EntryOf(e).result = None
              /\ e[2] = Len(processed[e[1]])
              /\ wpc[e[1]] = "crashed"
              /\ wk[e[1]] = EntryOf(e).index
    /\ \A r \in FileRecords :
          \E e \in Entries :
              /\ EntryOf(e).result = Some(r)
              /\ EntryOf(e).call = "returned"
              /\ IF EntryOf(e).tree_decomp = None
                 THEN r.treewidth = None
                 ELSE /\ EntryOf(e).tree_decomp[1].valid
                      /\ r.treewidth = Some(EntryOf(e).tree_decomp[1].width)

\* C7 witness: a worker that had appended a record got an invalid decomposition
\* for its next work item
C7_Witness ==
    \E e \in Entries :
        /\ InvalidDecomposition(EntryOf(e))
        /\ e[2] >= 2
        /\ ThisSweep(fs[output_filenames[e[1]]].records) # <<>>

\* worker w has aborted or is blocked in the decomposition call
Stopped(w) == wpc[w] \in { "crashed", "blocked" }

\* the indices of the work items for which a record was appended
RecordedIndices ==
    { EntryOf(e).index : e \in { x \in Entries : EntryOf(x).result # None } }

\* the work items from the one a stopped worker failed at onwards have no
\* record; a worker that returned has taken up and recorded every work item
\* assigned to it, whatever happened to the others; a running worker with
\* work items left can take up its next one, whatever happened to the others
IsolationState ==
    /\ \A w \in Workers : Stopped(w) => Remaining(w) \cap RecordedIndices = {}
    /\ \A v \in Workers :
          wpc[v] = "done" =>
              \A k \in 0..(Total - 1) :
                  IsAssigned(k, threads, v) =>
                      \E i \in DOMAIN processed[v] :
                          processed[v][i].index = k /\ processed[v][i].result # None
    /\ \A v \in Workers :
          (wpc[v] = "running" /\ Remaining(v) # {}) => ENABLED WorkerRecord(v)

\* a stopped worker takes no further step; a worker stops only in a step of
\* its own, at a work item of its own
IsolationStep ==
    /\ \A w \in Workers :
          Stopped(w) =>
              /\ wpc'[w] = wpc[w]
              /\ wk'[w] = wk[w]
              /\ processed'[w] = processed[w]
    /\ \A v \in Workers :
          (~ Stopped(v) /\ Stopped(v)') =>
              /\ wpc[v] = "running"
              /\ Len(processed'[v]) = Len(processed[v]) + 1
              /\ Failed(LastEntry(v)')
              /\ IsAssigned(LastEntry(v)'.index, threads, v)

\* the log file of a stopped worker does not grow
LogStopsGrowing ==
    \A w \in Workers :
        Stopped(w) =>
            Len(fs'[output_filenames[w]].records) <= Len(fs[output_filenames[w]].records)

\* C8 as stated: once a worker has aborted or blocked, its log file does not
\* grow and its remaining work items get no record; the other workers take up
\* and record all their work items and are not stopped because of it.
C8_Original ==
    /\ []IsolationState
    /\ [][IsolationStep /\ LogStopsGrowing]_vars

\* C8 amended: once a worker has aborted or blocked, its remaining work items
\* get no record and, for a base name with the {process_index} field, its log
\* file does not grow; the other workers take up and record all their work
\* items and are not stopped because of it.
C8_IsolationGivenField ==
    /\ []IsolationState
    /\ [][IsolationStep /\ (HasField(output_file_base_name) => LogStopsGrowing)]_vars

\* C8 witness: one worker has failed at a work item, another has returned after
\* recording a work item with a higher index
C8_Witness ==
    \E w, v \in Workers :
        /\ Stopped(w)
        /\ wpc[v] = "done"
        /\ HasField(output_file_base_name)
        /\ \E k \in ProcessedIndices(v) \cap RecordedIndices : k > wk[w]

\* C9 as stated: aggregation does not end with an exception, whatever the
\* workers have written, a worker without any record included; when it has
\* finished, the archive holds the index with every record that was appended.
C9_AggregationCompletes ==
    /\ cpc # "failed"
    /\ (cpc = "finished" /\ fs[pickle_file].exists) =>
          /\ fs[pickle_file].archive = << result_dict >>
          /\ \A e \in Entries :
                EntryOf(e).result # None =>
                    EntryOf(e).result[1] \in BagToSet(IndexBag(result_dict))

\* the orders in which the worker log list can be read
ReadOrders == { order \in [ Workers -> Workers ] : \A v \in Workers : \E w \in Workers : order[w] = v }

\* lines 116-128 with the log files read in the given order, from file i on
RECURSIVE AggregateFrom(_, _, _)
AggregateFrom(d, order, i) ==
    IF i = threads THEN d
    ELSE AggregateFrom(InsertAll(d, fs[output_filenames[order[i]]].records), order, i + 1)

AggregateInOrder(order) == AggregateFrom(<<>>, order, 0)

ListOrder == [ w \in Workers |-> w ]

\* the multiset of records under every key of an aggregated index
KeyBags(d) == [ n \in DOMAIN d |-> [ p \in DOMAIN d[n] |-> SeqToBag(d[n][p]) ] ]

AllLogsExist == \A w \in Workers : fs[output_filenames[w]].exists

\* C10: when the worker logs are aggregated, reading them in any order gives
\* an index with the same keys and, under every (num_nodes, edge_probability)
\* key, the same multiset of records as reading them in list order; the index
\* the aggregator has built when it has read all logs is the one of list order.
C10_OrderIndependent ==
    /\ (cpc = "combine" /\ AllLogsExist) =>
          \A order \in ReadOrders :
              KeyBags(AggregateInOrder(order)) = KeyBags(AggregateInOrder(ListOrder))
    /\ cpc = "write" => result_dict = AggregateInOrder(ListOrder)

\* C10 witness: the logs are about to be aggregated and reading them in another
\* order gives different lists under some key
C10_Witness ==
    /\ cpc = "combine"
    /\ AllLogsExist
    /\ \E order \in ReadOrders : AggregateInOrder(order) # AggregateInOrder(ListOrder)

\* the records of the files of the given names, as a multiset
RECURSIVE SumFiles(_)
SumFiles(names) ==
    IF names = {} THEN EmptyBag
    ELSE LET f == CHOOSE x \in names : TRUE
         IN  SeqToBag(fs[f].records) (+) SumFiles(names \ {f})

\* the records of the worker log list from entry i on, a file counted once for
\* every entry of the list that names it
RECURSIVE SumLogList(_)
SumLogList(i) ==
    IF i = threads THEN EmptyBag
    ELSE SeqToBag(fs[output_filenames[i]].records) (+) SumLogList(i + 1)

\* every record is under the key of its own num_nodes and edge_probability,
\* and no key has an empty mapping or an empty list
WellKeyed(d) ==
    /\ \A n \in DOMAIN d : DOMAIN d[n] # {}
    /\ \A n \in DOMAIN d : \A p \in DOMAIN d[n] :
          /\ d[n][p] # <<>>
          /\ \A i \in DOMAIN d[n][p] :
                d[n][p][i].num_nodes = n /\ d[n][p][i].edge_probability = p

\* C11 as stated: when the aggregator has read all logs, the records of the
\* index are, as a multiset, the records of the worker log files; every record
\* is under its own key and no key is empty.
C11_Original ==
    cpc = "write" =>
        /\ IndexBag(result_dict) = SumFiles(Range(output_filenames))
        /\ WellKeyed(result_dict)

\* C11 amended: when the aggregator has read all logs, the records of the
\* index are, as a multiset, the records of the files of the worker log list,
\* a file counted once for every entry of the list that names it; every record
\* is under its own key and no key is empty. The archive that is then written
\* holds this index.
C11_IndexIsSumOfLogList ==
    /\ cpc = "write" =>
          /\ IndexBag(result_dict) = SumLogList(0)
          /\ HasField(output_file_base_name) =>
                IndexBag(result_dict) = SumFiles(Range(output_filenames))
          /\ WellKeyed(result_dict)
    /\ (cpc \in { "remove", "finished" } /\ fs[pickle_file].exists) =>
          /\ fs[pickle_file].archive = << result_dict >>
          /\ WellKeyed(result_dict)

\* C11 witness: all logs have been read, two workers wrote to files of their
\* own and the index has more than one key
C11_Witness ==
    /\ cpc = "write"
    /\ HasField(output_file_base_name)
    /\ \A w \in Workers : ThisSweep(fs[output_filenames[w]].records) # <<>>
    /\ threads > 1
    /\ Cardinality(Keys(result_dict)) > 1

\* a worker log file is deleted only by the cleanup loop, which runs only when
\* removal is configured
DeletionOnlyInCleanup ==
    \A w \in Workers :
        (fs[output_filenames[w]].exists /\ ~ fs'[output_filenames[w]].exists) =>
            remove_process_pickles /\ cpc = "remove"

\* the cleanup loop starts with the archive written, and goes on whether or
\* not the file it is at exists
CleanupState ==
    /\ (cpc = "remove" /\ cidx = 0) =>
          fs[pickle_file].exists /\ fs[pickle_file].archive = << result_dict >>
    /\ cpc = "remove" => ENABLED CombineRemove
    /\ cpc = "finished" => (remove_process_pickles => \A w \in Workers : ~ fs[output_filenames[w]].exists)

\* a cleanup step does not fail
CleanupStep == cpc = "remove" => cpc' \in { "remove", "finished" }

\* without removal the aggregator leaves the worker log files as they are
LogsUnchangedWithoutRemoval ==
    (~ remove_process_pickles /\ cpc \in { "combine", "write" }) =>
        \A w \in Workers : fs'[output_filenames[w]] = fs[output_filenames[w]]

\* C12 as stated: worker log files are deleted only when removal is configured
\* and only after the archive has been written; a log file missing at cleanup
\* is no error; without removal, aggregation leaves every worker log file as
\* it is.
C12_Original ==
    /\ []CleanupState
    /\ [][DeletionOnlyInCleanup /\ CleanupStep /\ LogsUnchangedWithoutRemoval]_vars

\* C12 amended: worker log files are deleted only when removal is configured
\* and only after the archive has been written; a log file missing at cleanup
\* is no error; without removal, and for a base name with the {process_index}
\* field, aggregation leaves every worker log file as it is.
C12_CleanupGivenField ==
    /\ []CleanupState
    /\ [][ /\ DeletionOnlyInCleanup
           /\ CleanupStep
           /\ HasField(output_file_base_name) => LogsUnchangedWithoutRemoval ]_vars

\* C12 witness: the sweep has finished with removal configured, the files of
\* both workers are gone and the archive is there
C12_Witness ==
    /\ cpc = "finished"
    /\ remove_process_pickles
    /\ HasField(output_file_base_name)
    /\ threads > 1
    /\ \A w \in Workers : ~ fs[output_filenames[w]].exists
    /\ fs[pickle_file].exists
    /\ Keys(result_dict) # {}

\* the cleanup loop comes to a file that does not exist
C12_MissingFileWitness ==
    cpc = "remove" /\ ~ fs[output_filenames[cidx]].exists

\* ------------------------------------------------------------- two sweeps
\* parameter files of the sweeps that are run twice
SweepSpaces ==
    { [ number_of_nodes |-> <<3>>, probability |-> <<1>>,
        scenario_repetition |-> 2, random_seed_base |-> 1 ],
      [ number_of_nodes |-> <<2, 3>>, probability |-> <<1>> ],
      [ number_of_nodes |-> <<3>>, probability |-> <<1, 2>>, random_seed_base |-> 1 ] }

\* the orders in which an interpreter may iterate the set of node names: the
\* set holds strings, whose hash values differ from one interpreter run to
\* the next
NodeOrders ==
    { o \in [ 1..MaxNodes -> 1..MaxNodes ] : \A x \in 1..MaxNodes : \E a \in 1..MaxNodes : o[a] = x }

\* for i in undirected_graph.nodes, for a graph of the given number of nodes
NodesInOrder(number_of_nodes) ==
    LET present(x) == x <= number_of_nodes IN SelectSeq(node_order, present)

\* faulty variant: only pairs with int(j) < int(i) are passed over
SkipBelowOnly(i, j) == j < i

\* line 245: if int(j) <= int(i): continue
Skip(i, j) == j <= i

\* lines 243-247: the pairs for which random.random() is called, in the order
\* of the calls
PairSequence(number_of_nodes) ==
    LET order == NodesInOrder(number_of_nodes) IN
        Flatten([ a \in 1..Len(order) |->
            LET i == order[a]
                after(j) == ~ Skip(i, j)
                inner == SelectSeq(order, after)
            IN  [ b \in 1..Len(inner) |-> << i, inner[b] >> ] ])

\* the value random.random() returns at the given position of the stream
\* that random.seed(seed) starts: a fixed function of seed and position
RandomDraw(seed, pos) == 1 + ((seed + pos) % 2)

\* the draws the pairs of one generate_graph call get from the stream
SeededDraw(number_of_nodes, stream) ==
    LET pairs == PairSequence(number_of_nodes) IN
        [ e \in Range(pairs) |->
            RandomDraw(stream.seed,
                       stream.pos + (CHOOSE t \in DOMAIN pairs : pairs[t] = e) - 1) ]

InitTwoSweeps ==
    /\ threads \in 1..MaxThreads
    /\ output_file_base_name = << "tw_", FIELD, ".pickle" >>
    /\ timeout = None
    /\ remove_process_pickles = FALSE
    /\ scenario_parameter_space \in SweepSpaces
    /\ number_of_repetitions = 1
    /\ random_seed_base = 0
    /\ store_graphs_of_treewidth = {}
    /\ store_only_connected_graphs = FALSE
    /\ preexisting = {}
    /\ fs = [ f \in Range(output_filenames) \cup {pickle_file} |-> NoFile ]
    /\ cpc = "init"
    /\ cidx = 0
    /\ result_dict = <<>>
    /\ wpc = [ w \in Workers |-> "new" ]
    /\ wk = [ w \in Workers |-> 0 ]
    /\ processed = [ w \in Workers |-> <<>> ]
    /\ given = scenario_parameter_space
    /\ sweep = 1
    /\ first = None
    /\ node_order \in NodeOrders
    /\ rng = [ w \in Workers |-> None ]
    /\ graphs = <<>>
    /\ called = None
    /\ returned = None

\* lines 90-107 and 154: the next process is started with the seed
\* random_seed_base + process_index, and seeds its stream with it
StartSeededProcess ==
    /\ cpc = "start"
    /\ wpc' = [ wpc EXCEPT ![cidx] = "running" ]
    /\ rng' = [ rng EXCEPT ![cidx] = Some([ seed |-> random_seed_base + cidx, pos |-> 0 ]) ]
    /\ cpc' = NextIdx("join")[1]
    /\ cidx' = NextIdx("join")[2]
    /\ UNCHANGED << threads, output_file_base_name, timeout, remove_process_pickles, preexisting,
                    given, sweep, first, node_order, graphs, unit,
                    locals, scenario_parameter_space, fs, result_dict, wk, processed >>

\* lines 162-171: the worker generates the graph of its next work item
GenerateSeeded(w) ==
    /\ AtItem(w)
    /\ rng[w] # None
    /\ LET k == Min(Remaining(w))
           params == WorkItems[k + 1]
           stream == rng[w][1]
           graph == GenerateGraph(params[1], params[2], SeededDraw(params[1], stream))
       IN  /\ graphs' = [ x \in DOMAIN graphs \cup {k} |-> IF x = k THEN graph.edges ELSE graphs[x] ]
           /\ rng' = [ rng EXCEPT ![w] =
                         Some([ seed |-> stream.seed,
                                pos |-> stream.pos + Len(PairSequence(params[1])) ]) ]
           /\ wk' = [ wk EXCEPT ![w] = k + 1 ]
    /\ UNCHANGED << threads, output_file_base_name, timeout, remove_process_pickles, preexisting,
                    given, sweep, first, node_order, unit,
                    locals, scenario_parameter_space, fs, cpc, cidx, result_dict, wpc, processed >>

\* the sweep is run again when its workers have returned: by a second call of
\* start_experiments with the same dictionary object in the same interpreter,
\* or in a new interpreter run from the same parameter file
SecondCall ==
    /\ sweep = 1
    /\ cpc = "join"
    /\ \A w \in Workers : wpc[w] = "done"
    /\ \E how \in { "same object", "new run" } :
        /\ first' = Some([ how |-> how,
                           number_of_repetitions |-> number_of_repetitions,
                           random_seed_base |-> random_seed_base,
                           seeds |-> [ w \in Workers |-> rng[w][1].seed ],
                           items |-> WorkItems,
                           graphs |-> graphs ])
        /\ scenario_parameter_space' =
              IF how = "same object" THEN scenario_parameter_space ELSE given
        /\ node_order' \in IF how = "same object" THEN { node_order } ELSE NodeOrders
    /\ sweep' = 2
    /\ cpc' = "init"
    /\ cidx' = 0
    /\ wpc' = [ w \in Workers |-> "new" ]
    /\ wk' = [ w \in Workers |-> 0 ]
    /\ rng' = [ w \in Workers |-> None ]
    /\ graphs' = <<>>
    /\ UNCHANGED << threads, output_file_base_name, timeout, remove_process_pickles, preexisting,
                    given, unit, locals, fs, result_dict, processed >>

NextTwoSweeps ==
    \/ StartExperiments
    \/ StartSeededProcess
    \/ \E w \in Workers : GenerateSeeded(w)
    \/ \E w \in Workers : WorkerReturn(w)
    \/ SecondCall

SpecTwoSweeps == InitTwoSweeps /\ [][NextTwoSweeps]_vars

\* C13: a second call of start_experiments with the same dictionary object and
\* the same number of workers has the same repetitions, the same seeds and the
\* same work items as the first, and the dictionary is still as it was given.
C13_Replayable ==
    /\ cpc # "init" => scenario_parameter_space = given
    /\ (sweep = 2 /\ cpc # "init" /\ first[1].how = "same object") =>
          /\ number_of_repetitions = first[1].number_of_repetitions
          /\ random_seed_base = first[1].random_seed_base
          /\ WorkItems = first[1].items

\* the second call with the same object has read other repetitions and seeds
C13_ReplayDiverges ==
    /\ sweep = 2
    /\ cpc # "init"
    /\ first[1].how = "same object"
    /\ number_of_repetitions # first[1].number_of_repetitions
    /\ random_seed_base # first[1].random_seed_base

\* C14: worker w seeds its stream with random_seed_base + w, and a second
\* sweep from the same parameter file with the same number of workers
\* generates for every work item the edges the first sweep generated.
C14_Deterministic ==
    /\ \A w \in Workers : rng[w] # None => rng[w][1].seed = random_seed_base + w
    /\ (sweep = 2 /\ first[1].how = "new run") =>
          \A k \in DOMAIN graphs : graphs[k] = first[1].graphs[k]

\* ----------------------------------------------- a function taken by itself
\* the state of the sweep while a single function is called outside of one
NoSweep ==
    /\ threads = 1
    /\ output_file_base_name = << "tw_", FIELD, ".pickle" >>
    /\ timeout = None
    /\ remove_process_pickles = FALSE
    /\ scenario_parameter_space = [ number_of_nodes |-> <<>>, probability |-> <<>> ]
    /\ number_of_repetitions = 1
    /\ random_seed_base = 0
    /\ store_graphs_of_treewidth = {}
    /\ store_only_connected_graphs = FALSE
    /\ preexisting = {}
    /\ fs = [ f \in Range(output_filenames) \cup {pickle_file} |-> NoFile ]
    /\ cpc = "none"
    /\ cidx = 0
    /\ result_dict = <<>>
    /\ wpc = [ w \in Workers |-> "new" ]
    /\ wk = [ w \in Workers |-> 0 ]
    /\ processed = [ w \in Workers |-> <<>> ]
    /\ given = scenario_parameter_space
    /\ sweep = 1
    /\ first = None
    /\ rng = [ w \in Workers |-> None ]
    /\ graphs = <<>>

\* the sweep's variables but node_order
sweepvars ==
    << threads, output_file_base_name, timeout, remove_process_pickles,
       scenario_parameter_space, number_of_repetitions, random_seed_base,
       store_graphs_of_treewidth, store_only_connected_graphs, preexisting, fs,
       cpc, cidx, result_dict, wpc, wk, processed, given, sweep, first, rng, graphs >>

\* the number of pairs i < j of number_of_nodes nodes
NumPairs(number_of_nodes) == (number_of_nodes * (number_of_nodes - 1)) \div 2

\* the values random.random() returns one after the other: the sequence is
\* as long as the calls generate_graph makes, and starts over after its end
DrawSequences(number_of_nodes) ==
    [ 1..(IF number_of_nodes = 1 THEN 1 ELSE NumPairs(number_of_nodes)) -> Draws ]

StreamAt(stream, pos) == stream[(pos % Len(stream)) + 1]

\* lines 243-248: the double loop over the nodes from the given pair on, with
\* pos calls of random.random() made so far; the add_edge calls it makes
RECURSIVE EdgeLoop(_, _, _, _)
EdgeLoop(pairs, pos, stream, connection_probability) ==
    IF pairs = <<>> THEN <<>>
    ELSE LET i == Head(pairs)[1]
             j == Head(pairs)[2]
         IN  IF Skip(i, j)
             THEN EdgeLoop(Tail(pairs), pos, stream, connection_probability)
             ELSE (IF StreamAt(stream, pos) <= connection_probability
                   THEN << << i, j >> >> ELSE <<>>)
                  \o EdgeLoop(Tail(pairs), pos + 1, stream, connection_probability)

\* generate_graph: the nodes added (lines 239-240) and the sequence of
\* add_edge(i, j) calls (lines 243-248)
GenerateGraphCalls(number_of_nodes, connection_probability, stream) ==
    LET order == NodesInOrder(number_of_nodes)
        all == Flatten([ a \in 1..Len(order) |->
                           [ b \in 1..Len(order) |-> << order[a], order[b] >> ] ])
    IN  [ nodes |-> { i : i \in 1..number_of_nodes },
          add_edge |-> EdgeLoop(all, 0, stream, connection_probability) ]

InitGenerateGraph ==
    /\ NoSweep
    /\ node_order \in NodeOrders
    /\ called \in { Some([ number_of_nodes |-> n, connection_probability |-> p, stream |-> d ]) :
                    n \in 1..MaxNodes, p \in {0, 1, 2},
                    d \in UNION { DrawSequences(m) : m \in 1..MaxNodes } }
    /\ Len(called[1].stream) = Len(CHOOSE d \in DrawSequences(called[1].number_of_nodes) : TRUE)
    /\ returned = None

GenerateGraphCall ==
    /\ called # None
    /\ returned = None
    /\ returned' = Some(GenerateGraphCalls(called[1].number_of_nodes,
                                           called[1].connection_probability, called[1].stream))
    /\ UNCHANGED << sweepvars, node_order, called >>

SpecGenerateGraph == InitGenerateGraph /\ [][GenerateGraphCall]_vars

\* the draw each pair i < j gets when the stream is consumed in the order of
\* the calls
DrawOfPairs(number_of_nodes, stream) ==
    LET pairs == PairSequence(number_of_nodes) IN
        [ e \in { x \in Pairs(number_of_nodes) : x[1] < x[2] } |->
            StreamAt(stream, (CHOOSE t \in DOMAIN pairs : pairs[t] = e) - 1) ]

SubstrateEdges == { << "u", "v" >>, << "v", "u" >> }

Substrates ==
    { [ nodes |-> { "u", "v" }, edges |-> E,
        supported_types |-> [ n \in { "u", "v" } |-> IF n = "u" THEN { "t" } ELSE S ] ] :
      E \in SUBSET SubstrateEdges, S \in { {}, { "t" } } }

\* the request of the mappings: nodes i and j of type t, and the edge ij
TheRequest ==
    [ nodes |-> { "i", "j" },
      type |-> [ n \in { "i", "j" } |-> "t" ],
      node_demand |-> [ n \in { "i", "j" } |-> IF n = "i" THEN 2 ELSE 3 ],
      edge_demand |-> [ e \in { << "i", "j" >> } |-> 10 ],
      profit |-> 1 ]

\* mapping_nodes: both request nodes, in either order of the items
NodeMappings ==
    { << << a, x >>, << b, y >> >> :
        a \in { "i", "j" }, b \in { "i", "j" }, x \in { "u", "v" }, y \in { "u", "v" } }

\* an item of the value mapping_edges has for a request edge: a substrate edge
\* and, in a SplittableMapping, the flow x over it; the list of a Mapping has
\* no flows, its items are written with x = 10 and the flow is not read
On(u, v, x) == [ edge |-> << u, v >>, x |-> x ]

\* mapping_edges of a solutions.Mapping: a list of substrate edges per request edge
PathMappings ==
    { <<>> } \cup
    { << << << "i", "j" >>, path >> >> :
        path \in { <<>>, << On("u", "v", 10) >>, << On("u", "v", 10), On("v", "u", 10) >>,
                   << On("u", "v", 10), On("u", "v", 10) >> } }

\* mapping_edges of a vine.SplittableMapping: a dictionary of flows per request edge
FlowMappings ==
    { << << << "i", "j" >>, flows >> >> :
        flows \in { << On("u", "v", 10) >>, << On("u", "v", 3), On("v", "u", 7) >> } }

Mappings ==
    { m \in [ kind : { "Mapping", "SplittableMapping", "other" },
              is_embedded : { TRUE },
              mapping_nodes : NodeMappings,
              mapping_edges : PathMappings \cup FlowMappings ] :
        /\ m.mapping_nodes[1][1] # m.mapping_nodes[2][1]
        /\ m.kind = "SplittableMapping" => m.mapping_edges \in FlowMappings
        /\ m.kind = "Mapping" => m.mapping_edges \in PathMappings }

\* faulty variant: the types of the nodes are left out
initialize_load_dict_edges_only(scenario) ==
    [ k \in scenario.substrate.edges |-> 0 ]

\* _initialize_load_dict, lines 281-286
initialize_load_dict(scenario) ==
    [ k \in scenario.substrate.edges \cup
            UNION { { << t, u >> : t \in scenario.substrate.supported_types[u] } :
                    u \in scenario.substrate.nodes } |-> 0 ]

\* load[key] += amount for the items of a sequence of << key, amount >>, up to
\* the first key that load does not have
RECURSIVE AddAll(_, _)
AddAll(load, items) ==
    IF items = <<>> THEN [ load |-> load, raised |-> None ]
    ELSE IF Head(items)[1] \notin DOMAIN load
         THEN [ load |-> load, raised |-> Some("KeyError") ]
         ELSE AddAll([ load EXCEPT ![Head(items)[1]] = @ + Head(items)[2] ], Tail(items))

\* lines 290-292: the key and the demand (in tenths) of every mapped request node
NodeItems(req, req_mapping) ==
    [ a \in DOMAIN req_mapping.mapping_nodes |->
        LET i == req_mapping.mapping_nodes[a][1]
            u == req_mapping.mapping_nodes[a][2]
        IN  << << req.type[i], u >>, 10 * req.node_demand[i] >> ]

\* _compute_mapping_edge_load_unsplittable, lines 301-305
UnsplittableItems(req, req_mapping) ==
    Flatten([ a \in DOMAIN req_mapping.mapping_edges |->
        LET ij == req_mapping.mapping_edges[a][1]
            sedge_list == req_mapping.mapping_edges[a][2]
        IN  [ b \in DOMAIN sedge_list |-> << sedge_list[b].edge, 10 * req.edge_demand[ij] >> ] ])

\* _compute_mapping_edge_load_splittable, lines 308-312
SplittableItems(req, req_mapping) ==
    Flatten([ a \in DOMAIN req_mapping.mapping_edges |->
        LET ij == req_mapping.mapping_edges[a][1]
            edge_vars_dict == req_mapping.mapping_edges[a][2]
        IN  [ b \in DOMAIN edge_vars_dict |->
                << edge_vars_dict[b].edge, req.edge_demand[ij] * edge_vars_dict[b].x >> ] ])

\* _compute_mapping_load, lines 289-298: the load dictionary as the call
\* leaves it, and the exception it raised, if any
compute_mapping_load(load, req, req_mapping, legacy) ==
    IF ~ legacy THEN [ load |-> load, raised |-> Some("AttributeError") ]
    ELSE LET nodes_done == AddAll(load, NodeItems(req, req_mapping)) IN
         IF nodes_done.raised # None THEN nodes_done
         ELSE IF req_mapping.kind = "Mapping"
              THEN AddAll(nodes_done.load, UnsplittableItems(req, req_mapping))
              ELSE IF req_mapping.kind = "SplittableMapping"
                   THEN AddAll(nodes_done.load, SplittableItems(req, req_mapping))
                   ELSE nodes_done

InitMappingLoad ==
    /\ NoSweep
    /\ node_order = [ i \in 1..MaxNodes |-> i ]
    /\ called \in { Some([ scenario |-> [ substrate |-> s, requests |-> << TheRequest >> ],
                           req |-> TheRequest, req_mapping |-> m, legacy |-> l ]) :
                      s \in Substrates, m \in Mappings, l \in BOOLEAN }
    /\ returned = None

InitializeLoadDict ==
    /\ called # None
    /\ returned = None
    /\ returned' = Some([ initial |-> initialize_load_dict(called[1].scenario),
                          load |-> initialize_load_dict(called[1].scenario),
                          raised |-> None, mappings |-> 0 ])
    /\ UNCHANGED << sweepvars, node_order, called >>

ComputeMappingLoad ==
    /\ returned # None
    /\ returned[1].mappings = 0
    /\ LET r == compute_mapping_load(returned[1].load, called[1].req,
                                     called[1].req_mapping, called[1].legacy)
       IN  returned' = Some([ initial |-> returned[1].initial, load |-> r.load,
                              raised |-> r.raised, mappings |-> 1 ])
    /\ UNCHANGED << sweepvars, node_order, called >>

NextMappingLoad == InitializeLoadDict \/ ComputeMappingLoad

SpecMappingLoad == InitMappingLoad /\ [][NextMappingLoad]_vars

\* C18: the load dictionary _initialize_load_dict returns has as keys exactly
\* the substrate edges and the pairs (type, node) of a node and a type it
\* supports, all with value 0.0; _compute_mapping_load leaves the key set as
\* it is, whether it returns or raises.
C18_LoadMapComplete ==
    returned # None =>
        LET substrate == called[1].scenario.substrate
            resources == { k \in ({ "u", "v", "t" } \X substrate.nodes) :
                             \/ k \in substrate.edges
                             \/ k[1] \in substrate.supported_types[k[2]] }
        IN  /\ DOMAIN returned[1].initial = resources
            /\ \A k \in resources : returned[1].initial[k] = 0
            /\ DOMAIN returned[1].load = resources

\* C18 witness: a mapping was added to the load dictionary of a substrate with
\* an edge no mapping uses and a node that does not support the type
C18_Witness ==
    /\ returned # None
    /\ returned[1].mappings = 1
    /\ returned[1].raised = None
    /\ \E k \in DOMAIN returned[1].load : returned[1].load[k] = 0
    /\ \E k \in DOMAIN returned[1].load : returned[1].load[k] > 0
    /\ called[1].scenario.substrate.supported_types["v"] = {}

RECURSIVE SumSeq(_)
SumSeq(s) == IF s = <<>> THEN 0 ELSE Head(s) + SumSeq(Tail(s))

\* what the mapped request nodes demand of the resource k, in tenths
NodeDemandOn(k, req, req_mapping) ==
    SumSeq([ a \in DOMAIN req_mapping.mapping_nodes |->
               LET i == req_mapping.mapping_nodes[a][1]
                   u == req_mapping.mapping_nodes[a][2]
               IN  IF k = << req.type[i], u >> THEN 10 * req.node_demand[i] ELSE 0 ])

\* what the request edges demand of the resource k, in tenths: the demand d
\* for every occurrence of k on a path, d * x for a flow x over k
EdgeDemandOn(k, req, req_mapping) ==
    SumSeq([ a \in DOMAIN req_mapping.mapping_edges |->
               LET d == req.edge_demand[req_mapping.mapping_edges[a][1]]
                   on == req_mapping.mapping_edges[a][2]
               IN  SumSeq([ b \in DOMAIN on |->
                              IF on[b].edge # k THEN 0
                              ELSE IF req_mapping.kind = "Mapping" THEN 10 * d ELSE d * on[b].x ]) ])

\* the mapping uses only resources the substrate has
ValidMapping(load, req, req_mapping) ==
    /\ \A a \in DOMAIN req_mapping.mapping_nodes :
          << req.type[req_mapping.mapping_nodes[a][1]], req_mapping.mapping_nodes[a][2] >> \in DOMAIN load
    /\ \A a \in DOMAIN req_mapping.mapping_edges :
          \A b \in DOMAIN req_mapping.mapping_edges[a][2] :
              req_mapping.mapping_edges[a][2][b].edge \in DOMAIN load

\* C19: for a mapping (a Mapping or a SplittableMapping) that uses only
\* resources of the substrate, _compute_mapping_load returns with the load of
\* every (type, node) raised by the demands of the request nodes mapped
\* there, the load of every substrate edge raised by d for every path over it
\* (Mapping) or by d * x for the flow x over it (SplittableMapping), and every
\* other load as it was.
C19_LoadsAdded ==
    (/\ returned # None
     /\ returned[1].mappings = 1
     /\ called[1].req_mapping.kind \in { "Mapping", "SplittableMapping" }
     /\ ValidMapping(returned[1].initial, called[1].req, called[1].req_mapping))
    => /\ returned[1].raised = None
       /\ \A k \in DOMAIN returned[1].load :
             returned[1].load[k] =
                 returned[1].initial[k]
                 + NodeDemandOn(k, called[1].req, called[1].req_mapping)
                 + EdgeDemandOn(k, called[1].req, called[1].req_mapping)

\* the loads are as C19 says whenever the dictionaries of the mapping offer
\* iteritems(); demand 10 with flows 0.3 and 0.7 adds 3 and 7
C19_LoadsAddedIfLegacy == called[1].legacy => C19_LoadsAdded

\* demand 10 routed 0.3 and 0.7 has added 3 and 7
C19_SplitFlowAdded ==
    /\ returned # None
    /\ returned[1].mappings = 1
    /\ SubstrateEdges \subseteq DOMAIN returned[1].load
    /\ returned[1].load[<< "u", "v" >>] = 30
    /\ returned[1].load[<< "v", "u" >>] = 70

\* ------------------------------------------------ embedding-result reducer
\* OfflineViNEResultCollectionReducer. The archive is taken as the sequence
\* of its results, each at a coordinate (algorithm, scenario, execution,
\* setting) of its own, in the order of the loops of lines 101-113. A result
\* is [requests, request_mapping, mapping_status_per_request]; the runtimes
\* and the profit of a result are copied into the record and are left out.
Statuses ==
    { "is_embedded", "initial_lp_failed", "node_mapping_failed", "edge_mapping_failed", "unknown" }

TheSubstrate ==
    [ nodes |-> { "u", "v" }, edges |-> SubstrateEdges,
      supported_types |-> [ n \in { "u", "v" } |-> { "t" } ] ]

EmbeddedMapping ==
    [ kind |-> "Mapping", is_embedded |-> TRUE,
      mapping_nodes |-> << << "i", "u" >>, << "j", "v" >> >>,
      mapping_edges |-> << << << "i", "j" >>, << On("u", "v", 10) >> >> >> ]

RejectedMapping ==
    [ kind |-> "Mapping", is_embedded |-> FALSE, mapping_nodes |-> <<>>, mapping_edges |-> <<>> ]

\* the results over the given requests
ResultsOver(requests) ==
    [ requests : { requests },
      request_mapping : [ Range(requests) -> { None, Some(EmbeddedMapping), Some(RejectedMapping) } ],
      mapping_status_per_request : [ Range(requests) -> Statuses ] ]

Archives ==
    { << x >> : x \in ResultsOver(<<>>) \cup ResultsOver(<< "r1" >>) \cup ResultsOver(<< "r1", "r2" >>) }
    \cup
    { << x, y >> : x \in ResultsOver(<< "r1" >>) \cup ResultsOver(<< "r1", "r2" >>),
                   y \in ResultsOver(<< "r1" >>) }

\* req.profit of the requests
Profit(req) == IF req = "r1" THEN 1 ELSE 0

\* faulty variant: a status that is none of the four is passed over
RECURSIVE count_mapping_status_skipping(_, _)
count_mapping_status_skipping(statuses, counts) ==
    IF statuses = <<>> THEN [ raised |-> None, counts |-> counts ]
    ELSE count_mapping_status_skipping(Tail(statuses),
             IF Head(statuses) \in DOMAIN counts
             THEN [ counts EXCEPT ![Head(statuses)] = @ + 1 ] ELSE counts)

\* _count_mapping_status, lines 159-175: the loop over the statuses, with the
\* counts so far
RECURSIVE count_mapping_status(_, _)
count_mapping_status(statuses, counts) ==
    IF statuses = <<>> THEN [ raised |-> None, counts |-> counts ]
    ELSE IF Head(statuses) \in DOMAIN counts
         THEN count_mapping_status(Tail(statuses), [ counts EXCEPT ![Head(statuses)] = @ + 1 ])
         ELSE [ raised |-> Some("ValueError"), counts |-> counts ]

\* lines 160-163
ZeroCounts ==
    [ s \in { "is_embedded", "initial_lp_failed", "node_mapping_failed", "edge_mapping_failed" } |-> 0 ]

\* faulty variant: the assertion is not evaluated
assert_counts_skipped(num_is_embedded, number_of_embedded_reqs) == TRUE

\* line 132: assert num_is_embedded == number_of_embedded_reqs
assert_counts(num_is_embedded, number_of_embedded_reqs) ==
    num_is_embedded = number_of_embedded_reqs

\* lines 121-127: the loop over the requests from position a on
RECURSIVE RequestLoop(_, _, _)
RequestLoop(result, a, acc) ==
    IF a > Len(result.requests) \/ acc.raised # None THEN acc
    ELSE LET req == result.requests[a]
             req_mapping == result.request_mapping[req]
             profitable == IF Profit(req) > 0 THEN 1 ELSE 0
         IN  IF req_mapping # None /\ req_mapping[1].is_embedded
             THEN LET added == compute_mapping_load(acc.load, TheRequest, req_mapping[1], TRUE) IN
                  RequestLoop(result, a + 1,
                      [ load |-> added.load, raised |-> added.raised,
                        number_of_embedded_reqs |-> acc.number_of_embedded_reqs + 1,
                        number_of_req_profit |-> acc.number_of_req_profit + profitable ])
             ELSE RequestLoop(result, a + 1,
                      [ acc EXCEPT !.number_of_req_profit = @ + profitable ])

\* lines 111-148 for one result: the reduced record, or the exception raised
reduce_result(result, legacy) ==
    IF ~ legacy THEN [ raised |-> Some("AttributeError"), reduced |-> None ]
    ELSE LET number_of_requests == Len(result.requests)
             scanned == RequestLoop(result, 1,
                            [ load |-> initialize_load_dict([ substrate |-> TheSubstrate ]),
                              raised |-> None,
                              number_of_embedded_reqs |-> 0, number_of_req_profit |-> 0 ])
             tally == count_mapping_status(
                          [ a \in DOMAIN result.requests |->
                              result.mapping_status_per_request[result.requests[a]] ], ZeroCounts)
         IN  IF scanned.raised # None THEN [ raised |-> scanned.raised, reduced |-> None ]
             ELSE IF number_of_requests = 0
             THEN [ raised |-> Some("ZeroDivisionError"), reduced |-> None ]
             ELSE IF tally.raised # None THEN [ raised |-> tally.raised, reduced |-> None ]
             ELSE IF ~ assert_counts(tally.counts["is_embedded"], scanned.number_of_embedded_reqs)
             THEN [ raised |-> Some("AssertionError"), reduced |-> None ]
             ELSE [ raised |-> None,
                    reduced |-> Some([ load |-> scanned.load,
                                       num_is_embedded |-> tally.counts["is_embedded"],
                                       num_initial_lp_failed |-> tally.counts["initial_lp_failed"],
                                       num_node_mapping_failed |-> tally.counts["node_mapping_failed"],
                                       num_edge_mapping_failed |-> tally.counts["edge_mapping_failed"],
                                       embedding_ratio |-> << scanned.number_of_embedded_reqs,
                                                              number_of_requests >>,
                                       num_req_with_profit |-> scanned.number_of_req_profit,
                                       original_number_requests |-> number_of_requests ]) ]

InitReduceVine ==
    /\ NoSweep
    /\ node_order = [ i \in 1..MaxNodes |-> i ]
    /\ called \in { Some([ archive |-> a, legacy |-> l ]) : a \in Archives, l \in BOOLEAN }
    /\ returned = None

\* lines 96-100: the archive is read, ssd_reduced is empty
ReadArchive ==
    /\ called # None
    /\ returned = None
    /\ returned' = Some([ ssd_reduced |-> <<>>, at |-> 1, raised |-> None, output |-> None ])
    /\ UNCHANGED << sweepvars, node_order, called >>

\* lines 111-148: the next result is reduced, or the reduction ends with an exception
ReduceNextResult ==
    /\ returned # None
    /\ returned[1].raised = None
    /\ returned[1].output = None
    /\ returned[1].at <= Len(called[1].archive)
    /\ LET r == reduce_result(called[1].archive[returned[1].at], called[1].legacy) IN
        returned' = Some(IF r.raised # None
                         THEN [ returned[1] EXCEPT !.raised = r.raised ]
                         ELSE [ returned[1] EXCEPT !.ssd_reduced = Append(@, r.reduced[1]),
                                                   !.at = @ + 1 ])
    /\ UNCHANGED << sweepvars, node_order, called >>

\* lines 149-155: the reduced archive is written
WriteReduced ==
    /\ returned # None
    /\ returned[1].raised = None
    /\ returned[1].output = None
    /\ returned[1].at > Len(called[1].archive)
    /\ returned' = Some([ returned[1] EXCEPT !.output = Some(returned[1].ssd_reduced) ])
    /\ UNCHANGED << sweepvars, node_order, called >>

NextReduceVine == ReadArchive \/ ReduceNextResult \/ WriteReduced

SpecReduceVine == InitReduceVine /\ [][NextReduceVine]_vars

\* the number of requests of a result whose mapping status is "is_embedded"
TallyEmbedded(result) ==
    Cardinality({ a \in DOMAIN result.requests :
                    result.mapping_status_per_request[result.requests[a]] = "is_embedded" })

\* the number of requests of a result whose mapping is not null and is embedded
ScanEmbedded(result) ==
    Cardinality({ a \in DOMAIN result.requests :
                    /\ result.request_mapping[result.requests[a]] # None
                    /\ result.request_mapping[result.requests[a]][1].is_embedded })

\* C16: a reduced record exists for a result only if the count of embedded
\* requests from the mapping-status tally equals the count from the scan of
\* the request mappings, and the record carries that count; the reduction
\* never gets past a result whose two counts differ: no record is emitted
\* for it and no output is written.
C16_CountsCrossChecked ==
    returned # None =>
        LET s == returned[1]
            archive == called[1].archive
        IN  /\ Len(s.ssd_reduced) <= Len(archive)
            /\ \A t \in DOMAIN s.ssd_reduced :
                   /\ TallyEmbedded(archive[t]) = ScanEmbedded(archive[t])
                   /\ s.ssd_reduced[t].num_is_embedded = ScanEmbedded(archive[t])
                   /\ s.ssd_reduced[t].embedding_ratio = << ScanEmbedded(archive[t]), Len(archive[t].requests) >>
            /\ \A t \in DOMAIN archive :
                   TallyEmbedded(archive[t]) # ScanEmbedded(archive[t]) =>
                       /\ Len(s.ssd_reduced) < t
                       /\ s.at <= t
                       /\ s.output = None

\* a result with one of two requests embedded by both counts was reduced to
\* a record, and the next result, whose counts differ, ended the reduction
\* with the assertion
C16_Witness ==
    /\ returned # None
    /\ Len(called[1].archive) = 2
    /\ Len(called[1].archive[1].requests) = 2
    /\ ScanEmbedded(called[1].archive[1]) = 1
    /\ TallyEmbedded(called[1].archive[2]) # ScanEmbedded(called[1].archive[2])
    /\ Len(returned[1].ssd_reduced) = 1
    /\ returned[1].ssd_reduced[1].num_is_embedded = 1
    /\ returned[1].raised = Some("AssertionError")
    /\ returned[1].output = None

\* a result has a request whose status is none of the four
HasUnknownStatus(result) ==
    \E a \in DOMAIN result.requests :
        result.mapping_status_per_request[result.requests[a]] \notin DOMAIN ZeroCounts

\* no output once an exception was raised, a written output holds a record
\* of every result, and no record exists for a result with an unknown status
AllOrNothing ==
    returned # None =>
        LET s == returned[1]
            archive == called[1].archive
        IN  /\ s.raised # None => s.output = None
            /\ s.output # None => /\ Len(s.output[1]) = Len(archive)
                                  /\ s.output[1] = s.ssd_reduced
            /\ \A t \in DOMAIN archive :
                   HasUnknownStatus(archive[t]) =>
                       /\ Len(s.ssd_reduced) < t
                       /\ s.output = None

\* the step that reaches a result with an unknown status raises
UnknownStatusRaises ==
    ( /\ returned # None
      /\ returned[1].raised = None
      /\ returned[1].at <= Len(called[1].archive)
      /\ HasUnknownStatus(called[1].archive[returned[1].at]) )
    => /\ returned'[1].raised # None
       /\ returned'[1].ssd_reduced = returned[1].ssd_reduced
       /\ returned'[1].output = None

\* C17: a result with a request whose mapping status is none of the four
\* makes the reduction raise when it is reached, it is never reduced to a
\* record, and the reduction is all-or-nothing: once an exception was raised
\* at any result no output is written, and a written output holds a record
\* of every result of the archive.
C17_UnknownStatusIsFatal ==
    [] AllOrNothing /\ [][UnknownStatusRaises]_vars

\* the first result was reduced to a record, the second has a request with an
\* unknown status and ended the reduction with ValueError, nothing is written
C17_Witness ==
    /\ returned # None
    /\ Len(called[1].archive) = 2
    /\ HasUnknownStatus(called[1].archive[2])
    /\ Len(returned[1].ssd_reduced) = 1
    /\ returned[1].raised = Some("ValueError")
    /\ returned[1].output = None

\* an archive of two results was reduced and written whole
C17_WrittenWitness ==
    /\ returned # None
    /\ Len(called[1].archive) = 2
    /\ returned[1].output # None
    /\ Len(returned[1].output[1]) = 2

\* ------------------------------------------------- rounding-result reducer
\* RandRoundSepLPOptDynVMPCollectionResultReducer.reduce_single_solution for
\* a solution with one setting (algorithm_sub_parameters). The scenario has
\* the requests r1 and r2; an attempt (rounding_result) is given by its
\* solution, None or the request_mapping of an IntegralScenarioSolution.
ScenarioRequests == << "r1", "r2" >>

RequestMappings ==
    [ Range(ScenarioRequests) -> { None, Some(EmbeddedMapping), Some(RejectedMapping) } ]

RoundingResults ==
    { [ solution |-> None ] } \cup { [ solution |-> Some(rm) ] : rm \in RequestMappings }

RoundingResultLists ==
    { <<>> } \cup { << a >> : a \in RoundingResults } \cup { << a, b >> : a, b \in RoundingResults }

\* lines 248-253: the loop over request_mapping.items() from position a on
RECURSIVE MappingLoop(_, _, _, _)
MappingLoop(request_mapping, a, legacy, acc) ==
    IF a > Len(ScenarioRequests) \/ acc.raised # None THEN acc
    ELSE LET mapping == request_mapping[ScenarioRequests[a]] IN
         IF mapping # None /\ mapping[1].is_embedded
         THEN LET added == compute_mapping_load(acc.load, TheRequest, mapping[1], legacy) IN
              MappingLoop(request_mapping, a + 1, legacy,
                  [ load |-> added.load, raised |-> added.raised,
                    number_of_embedded_reqs |->
                        IF added.raised = None THEN acc.number_of_embedded_reqs + 1
                        ELSE acc.number_of_embedded_reqs ])
         ELSE MappingLoop(request_mapping, a + 1, legacy, acc)

\* lines 242-260: the loop over rounding_result_list from position a on, with
\* best_solution_load and best_solution_embedding_ratio so far; the ratio is
\* << embedded, requests >>, and << -1, 1 >> for the initial -1
RECURSIVE RoundingLoop(_, _, _, _)
RoundingLoop(rounding_result_list, a, legacy, acc) ==
    IF a > Len(rounding_result_list) \/ acc.raised # None THEN acc
    ELSE LET rounding_result == rounding_result_list[a] IN
         IF rounding_result.solution # None
         THEN LET scanned == MappingLoop(rounding_result.solution[1], 1, legacy,
                                 [ load |-> acc.best_solution_load, raised |-> None,
                                   number_of_embedded_reqs |-> 0 ])
              IN  RoundingLoop(rounding_result_list, a + 1, legacy,
                      [ best_solution_load |-> scanned.load,
                        raised |-> scanned.raised,
                        best_solution_embedding_ratio |->
                            IF scanned.raised = None
                            THEN << scanned.number_of_embedded_reqs, Len(ScenarioRequests) >>
                            ELSE acc.best_solution_embedding_ratio ])
         ELSE RoundingLoop(rounding_result_list, a + 1, legacy, acc)

\* faulty variant: the ratio of a setting starts at 0 of the requests
reduce_single_solution_zero_ratio(solution, legacy) ==
    IF solution = None THEN None
    ELSE Some(RoundingLoop(solution[1], 1, legacy,
                  [ best_solution_load |-> initialize_load_dict([ substrate |-> TheSubstrate ]),
                    best_solution_embedding_ratio |-> << 0, Len(ScenarioRequests) >>,
                    raised |-> None ]))

\* lines 222-278: None for no solution, else the load and the ratio of the
\* setting, or the exception raised
reduce_single_solution(solution, legacy) ==
    IF solution = None THEN None
    ELSE Some(RoundingLoop(solution[1], 1, legacy,
                  [ best_solution_load |-> initialize_load_dict([ substrate |-> TheSubstrate ]),
                    best_solution_embedding_ratio |-> << -1, 1 >>,
                    raised |-> None ]))

InitReduceSingle ==
    /\ NoSweep
    /\ node_order = [ i \in 1..MaxNodes |-> i ]
    /\ called \in { Some([ solution |-> s, legacy |-> l ]) :
                      s \in { None } \cup { Some(x) : x \in RoundingResultLists }, l \in BOOLEAN }
    /\ returned = None

\* line 213: compressed = self.reduce_single_solution(solution)
ReduceSingleSolution ==
    /\ called # None
    /\ returned = None
    /\ returned' = Some([ compressed |-> reduce_single_solution(called[1].solution, called[1].legacy) ])
    /\ UNCHANGED << sweepvars, node_order, called >>

NextReduceSingle == ReduceSingleSolution

SpecReduceSingle == InitReduceSingle /\ [][NextReduceSingle]_vars

\* the positions of the attempts with a solution
NonNull(rounding_result_list) ==
    { a \in DOMAIN rounding_result_list : rounding_result_list[a].solution # None }

\* the load and the ratio of one solution taken alone
Alone(request_mapping) ==
    MappingLoop(request_mapping, 1, TRUE,
        [ load |-> initialize_load_dict([ substrate |-> TheSubstrate ]), raised |-> None,
          number_of_embedded_reqs |-> 0 ])

\* C20: when the attempt list of a setting has more than one attempt with a
\* solution and reduce_single_solution returns, best_solution_load is the
\* load of the first such solution alone and best_solution_embedding_ratio
\* is the ratio of that solution.
C20_FirstSolutionOnly ==
    ( /\ returned # None
      /\ called[1].solution # None
      /\ Cardinality(NonNull(called[1].solution[1])) > 1
      /\ returned[1].compressed[1].raised = None )
    => LET rounding_result_list == called[1].solution[1]
           f == Min(NonNull(rounding_result_list))
           alone == Alone(rounding_result_list[f].solution[1])
       IN  /\ returned[1].compressed[1].best_solution_load = alone.load
           /\ returned[1].compressed[1].best_solution_embedding_ratio
                  = << alone.number_of_embedded_reqs, Len(ScenarioRequests) >>

\* what the code computes: the loads of all solutions added up, the ratio of
\* the last solution
C20_SumOfAllRatioOfLast ==
    ( /\ returned # None
      /\ called[1].solution # None
      /\ NonNull(called[1].solution[1]) # {}
      /\ returned[1].compressed[1].raised = None )
    => LET rounding_result_list == called[1].solution[1]
           last == CHOOSE a \in NonNull(rounding_result_list) :
                       \A b \in NonNull(rounding_result_list) : b <= a
           zero == initialize_load_dict([ substrate |-> TheSubstrate ])
       IN  /\ \A k \in DOMAIN zero :
                  returned[1].compressed[1].best_solution_load[k]
                      = SumSeq([ a \in DOMAIN rounding_result_list |->
                                   IF a \in NonNull(rounding_result_list)
                                   THEN Alone(rounding_result_list[a].solution[1]).load[k] ELSE 0 ])
           /\ returned[1].compressed[1].best_solution_embedding_ratio
                  = << Alone(rounding_result_list[last].solution[1]).number_of_embedded_reqs,
                       Len(ScenarioRequests) >>

\* the compressed result of a setting none of whose attempts has a solution
NoSolutionCase ==
    /\ returned # None
    /\ called[1].solution # None
    /\ NonNull(called[1].solution[1]) = {}

\* C21 as stated: for a setting in which every attempt's solution is null,
\* or which has no attempts, nothing is raised, the ratio is the sentinel -1
\* and the best-solution load map is empty.
C21_Original ==
    NoSolutionCase =>
        /\ returned[1].compressed # None
        /\ returned[1].compressed[1].raised = None
        /\ returned[1].compressed[1].best_solution_embedding_ratio = << -1, 1 >>
        /\ DOMAIN returned[1].compressed[1].best_solution_load = {}

\* C21: for a setting in which every attempt's solution is null, or which
\* has no attempts, nothing is raised, the ratio is the sentinel -1 and the
\* best-solution load map is the initial one: a key for every substrate edge
\* and every supported (type, node) pair, each with load 0.
C21_NoSolutionGivesSentinelAndZeroLoads ==
    NoSolutionCase =>
        /\ returned[1].compressed # None
        /\ returned[1].compressed[1].raised = None
        /\ returned[1].compressed[1].best_solution_embedding_ratio = << -1, 1 >>
        /\ DOMAIN returned[1].compressed[1].best_solution_load
               = TheSubstrate.edges
                 \cup { << t, n >> \in { "t" } \X TheSubstrate.nodes : t \in TheSubstrate.supported_types[n] }
        /\ \A k \in DOMAIN returned[1].compressed[1].best_solution_load :
               returned[1].compressed[1].best_solution_load[k] = 0

\* two attempts without a solution were reduced, with mapping dictionaries
\* that do not offer iteritems()
C21_Witness ==
    /\ NoSolutionCase
    /\ Len(called[1].solution[1]) = 2
    /\ ~ called[1].legacy
    /\ returned[1].compressed[1].best_solution_embedding_ratio = << -1, 1 >>

\* a setting without attempts was reduced
C21_NoAttemptsWitness ==
    /\ NoSolutionCase
    /\ called[1].solution[1] = <<>>
    /\ returned[1].compressed[1].raised = None

\* ------------------------------------------------------ claims C22 to C25
\* the nodes reached from the nodes S along the edges, in either direction
RECURSIVE ReachFrom(_, _)
ReachFrom(S, edges) ==
    LET T == S \cup { e[2] : e \in { x \in edges : x[1] \in S } }
               \cup { e[1] : e \in { x \in edges : x[2] \in S } }
    IN  IF T = S THEN S ELSE ReachFrom(T, edges)

\* the graph with the nodes 1..n and the given edges is connected
ConnectedGraph(n, edges) == n >= 1 /\ ReachFrom({ 1 }, edges) = 1..n

\* the history entries for which a record was appended
Appended == { e \in Entries : EntryOf(e).result # None }

C22_TimeoutWitness ==
    /\ store_graphs_of_treewidth # {}
    /\ \E e \in Appended : EntryOf(e).tree_decomp = None

\* the i-th record a worker has written is the record of the i-th work item
\* assigned to it, in increasing order of the global index
PrefixOfAssigned ==
    \A w \in Workers :
        \A i \in 1..Len(RecordedResults(w)) :
            LET k == w + (i - 1) * threads
                rec == RecordedResults(w)[i]
            IN  /\ k < Total
                /\ IsAssigned(k, threads, w)
                /\ << rec.num_nodes, rec.edge_probability, rec.repetition_index >> = WorkItems[k + 1]
                /\ \E j \in DOMAIN processed[w] :
                       processed[w][j].index = k /\ processed[w][j].result = Some(rec)

\* a step leaves the log of worker w as it is, or adds one record at its end,
\* or is the removal of the log in the cleanup after aggregation
AppendOnlyStep(w) ==
    LET f == output_filenames[w] IN
    \/ fs'[f] = fs[f]
    \/ /\ fs'[f].exists
       /\ Len(fs'[f].records) = Len(fs[f].records) + 1
       /\ SubSeq(fs'[f].records, 1, Len(fs[f].records)) = fs[f].records
    \/ /\ cpc = "remove"
       /\ fs'[f] = NoFile

\* a step in which a worker aborts or blocks leaves every log as it is
AbortKeepsLogs ==
    (\E w \in Workers : ~ Stopped(w) /\ Stopped(w)') => fs' = fs

\* the log of worker w holds, after the records found at sweep start, the
\* records the worker has written, in its order
LogIsOwnRecords(w) ==
    fs[output_filenames[w]].exists =>
        ThisSweep(fs[output_filenames[w]].records) = RecordedResults(w)

\* C23 as stated: every step leaves a worker's log unchanged or adds exactly
\* one record at its end, leaving the records before it unchanged (the log is
\* removed only in the cleanup), also in a step in which a worker aborts; at
\* every moment the records a worker has written in this sweep are those of
\* a prefix of its assigned work items in increasing global-index order.
C23_Original ==
    /\ []PrefixOfAssigned
    /\ [][AbortKeepsLogs /\ \A w \in Workers : AppendOnlyStep(w)]_vars

\* C23 amended: the same for a base name with the {process_index} field, for
\* which the log of a worker also holds exactly the worker's own records of
\* this sweep for as long as it exists.
C23_AppendOnlyGivenField ==
    /\ [](PrefixOfAssigned
          /\ (HasField(output_file_base_name) => \A w \in Workers : LogIsOwnRecords(w)))
    /\ [][AbortKeepsLogs
          /\ (HasField(output_file_base_name) => \A w \in Workers : AppendOnlyStep(w))]_vars

\* a worker has written two records after the one found at sweep start and
\* has then aborted; its log still holds them in order
C23_Witness ==
    \E w \in Workers :
        /\ HasField(output_file_base_name)
        /\ wpc[w] = "crashed"
        /\ Len(RecordedResults(w)) = 2
        /\ fs[output_filenames[w]].records = << StaleResult >> \o RecordedResults(w)

\* the global indices of the work items assigned to worker w
AssignedTo(w) == { k \in 0..(Total - 1) : IsAssigned(k, threads, w) }

\* C24: the numbers of work items assigned to any two workers differ by at
\* most 1, and a worker that has returned has taken up exactly the work items
\* assigned to it.
C24_LoadBalanced ==
    /\ \A w, v \in Workers :
           Cardinality(AssignedTo(w)) - Cardinality(AssignedTo(v)) <= 1
    /\ \A w \in Workers :
           wpc[w] = "done" =>
               /\ ProcessedIndices(w) = AssignedTo(w)
               /\ Len(processed[w]) = Cardinality(AssignedTo(w))

\* two workers have returned from a sweep of three work items, one with two
\* and one with one
C24_Witness ==
    /\ threads = 2
    /\ Total = 3
    /\ AllDone
    /\ Len(processed[0]) = 2
    /\ Len(processed[1]) = 1

\* a worker without any work item has returned
C24_IdleWorkerWitness ==
    \E w \in Workers : wpc[w] = "done" /\ AssignedTo(w) = {}

\* C25: when worker log files left by an earlier sweep exist at sweep start,
\* the aggregated index of the new sweep holds at most one record per work
\* item and none of the earlier sweep's records, and so does the archive
\* written from it.
C25_OnlyThisSweep ==
    (preexisting # {} /\ Aggregated) =>
        /\ \A r \in BagToSet(IndexBag(result_dict)) : r.sweep = "this"
        /\ \A item \in BagToSet(IndexItems(result_dict)) :
               CopiesIn(item, IndexItems(result_dict)) <= 1

\* what the code does instead: with distinct log files, a sweep that
\* finished after every worker returned has in its archive the record the
\* earlier sweep left, next to this sweep's record of the same work item
C25_StaleRecordInArchive ==
    /\ HasField(output_file_base_name)
    /\ preexisting # {}
    /\ AllDone
    /\ cpc = "finished"
    /\ fs[pickle_file].archive = << result_dict >>
    /\ StaleResult \in BagToSet(IndexBag(result_dict))
    /\ CopiesIn(<< 2, 2, 0 >>, IndexItems(result_dict)) = 2

=============================================================================
